---- MODULE Spec2Model ----
(***************************************************************************)
(* Model of app.py, the water-quality dashboard: the preprocessing         *)
(* pipeline load_and_preprocess (read, coerce, deduplicate, impute,        *)
(* classify, save), add_map_coords, detect_anomalies, and the script body  *)
(* that Streamlit re-executes on every widget interaction (filter mask,    *)
(* dashboard section).                                                     *)
(*                                                                         *)
(* Representation.                                                         *)
(*   - A text is a sequence of one-character strings.  A missing text      *)
(*     cell (float NaN in an object column) is NoText.                     *)
(*   - A measurement is an integer count of twentieths (6.5 is 130), so    *)
(*     that the median of two one-decimal values is exact.  A year is a    *)
(*     plain integer.  A missing number is NaN; every comparison with NaN  *)
(*     is false, as in IEEE arithmetic.                                    *)
(*   - A table is [columns |-> set of names, rows |-> sequence of          *)
(*     functions from columns to cells].                                   *)
(*   - Series.fillna(inplace=True) on df[col] writes through to the frame  *)
(*     (pandas without copy-on-write, the library line the script targets).*)
(***************************************************************************)
EXTENDS Integers, Sequences, FiniteSets, TLC

VARIABLES
    pc,             \* position of the script
    raw,            \* the table read_csv returns, headers normalised and renamed
    df,             \* the script's df
    cache,          \* st.cache_data entry of load_and_preprocess
    csv,            \* processed_water_data.csv on disk
    dff,            \* the filtered copy
    nav,            \* sidebar radio
    sel_states,     \* multiselect "state_filter"
    year_range,     \* slider "year_filter"
    map_param,      \* selectbox "map_param"
    anomaly_param,  \* selectbox "anomaly_param"
    shown,          \* what the dashboard section computed in this run
    executed        \* how often each part of the pipeline has executed

vars == <<pc, raw, df, cache, csv, dff, nav, sel_states, year_range,
          map_param, anomaly_param, shown, executed>>

(***************************************************************************)
(* Bounds of the model.                                                    *)
(***************************************************************************)
MaxRows == 3

(***************************************************************************)
(* Numbers.                                                                *)
(***************************************************************************)
NaN == 0 - 1
Unit == 2 * 10

isna(v) == v = NaN

Lt(a, b) == ~isna(a) /\ ~isna(b) /\ a < b
Le(a, b) == ~isna(a) /\ ~isna(b) /\ a <= b
Gt(a, b) == ~isna(a) /\ ~isna(b) /\ a > b

(***************************************************************************)
(* Texts.                                                                  *)
(***************************************************************************)
NoText == <<"NaN">>

Lowers == <<"a","b","c","d","e","f","g","h","i","j","k","l","m",
            "n","o","p","q","r","s","t","u","v","w","x","y","z">>
Uppers == <<"A","B","C","D","E","F","G","H","I","J","K","L","M",
            "N","O","P","Q","R","S","T","U","V","W","X","Y","Z">>
Digits == <<"0","1","2","3","4","5","6","7","8","9">>

IndexIn(c, seq) ==
    IF \E i \in 1..Len(seq) : seq[i] = c
    THEN CHOOSE i \in 1..Len(seq) : seq[i] = c
    ELSE 0

IsDigit(c) == IndexIn(c, Digits) > 0
DigitVal(c) == IndexIn(c, Digits) - 1

upper_char(c) == IF IndexIn(c, Lowers) > 0 THEN Uppers[IndexIn(c, Lowers)] ELSE c

str_upper(s) == [i \in 1..Len(s) |-> upper_char(s[i])]

RECURSIVE lstrip(_)
lstrip(s) == IF s # << >> /\ Head(s) = " " THEN lstrip(Tail(s)) ELSE s

RECURSIVE rstrip(_)
rstrip(s) ==
    IF s # << >> /\ s[Len(s)] = " " THEN rstrip(SubSeq(s, 1, Len(s) - 1)) ELSE s

str_strip(s) == rstrip(lstrip(s))

\* Series.str.strip / Series.str.upper leave a missing cell missing.
ser_strip(t) == IF t = NoText THEN NoText ELSE str_strip(t)
ser_upper(t) == IF t = NoText THEN NoText ELSE str_upper(t)

(***************************************************************************)
(* pandas.read_csv and pandas.to_numeric on a cell.                        *)
(***************************************************************************)
\* The default na_values of read_csv: such a cell is read as missing.
STR_NA_VALUES ==
    {<<"-","1",".","#","I","N","D">>, <<"1",".","#","Q","N","A","N">>,
     <<"1",".","#","I","N","D">>, <<"-","1",".","#","Q","N","A","N">>,
     <<"#","N","/","A"," ","N","/","A">>, <<"#","N","/","A">>,
     <<"N","/","A">>, <<"n","/","a">>, <<"N","A">>, <<"<","N","A",">">>,
     <<"#","N","A">>, <<"N","U","L","L">>, <<"n","u","l","l">>,
     <<"N","a","N">>, <<"-","N","a","N">>, <<"n","a","n">>,
     <<"-","n","a","n">>, <<"N","o","n","e">>, << >>}

read_cell(t) == IF t \in STR_NA_VALUES THEN NoText ELSE t

RECURSIVE digits_val(_)
digits_val(s) ==
    IF s = << >> THEN 0
    ELSE 10 * digits_val(SubSeq(s, 1, Len(s) - 1)) + DigitVal(s[Len(s)])

all_digits(s) == \A i \in 1..Len(s) : IsDigit(s[i])

\* to_numeric(errors="coerce") of one text, counted in 1/unit: a decimal
\* literal (digits, at most two fractional digits) or else missing.
to_numeric(s, unit) ==
    LET dot == IndexIn(".", s)
        ip  == IF dot = 0 THEN s ELSE SubSeq(s, 1, dot - 1)
        fp  == IF dot = 0 THEN << >> ELSE SubSeq(s, dot + 1, Len(s))
    IN  IF /\ s # NoText
           /\ Len(ip) + Len(fp) >= 1
           /\ all_digits(ip) /\ all_digits(fp)
           /\ Len(fp) <= 2
        THEN digits_val(ip) * unit
             + (IF fp = << >> THEN 0
                ELSE IF Len(fp) = 1 THEN (DigitVal(fp[1]) * unit) \div 10
                ELSE (digits_val(fp) * unit) \div 100)
        ELSE NaN

\* Series.astype(str): a missing cell becomes the text "nan".
astype_str(t) == IF t = NoText THEN <<"n","a","n">> ELSE t

(***************************************************************************)
(* Tables.                                                                 *)
(***************************************************************************)
Table(columns, rows) == [columns |-> columns, rows |-> rows]

EmptyTable == Table({}, << >>)

\* df[c] = vals, one value per row: the column is added when it is not there.
SetCol(t, c, vals) ==
    Table(t.columns \cup {c},
          [i \in 1..Len(t.rows) |->
              [k \in t.columns \cup {c} |->
                  IF k = c THEN vals[i] ELSE t.rows[i][k]]])

\* Series.apply / DataFrame.apply(axis=1) arguments: the rows' positions.
Index(t) == 1..Len(t.rows)

\* df[mask]: the rows whose mask entry is true, in order.
RECURSIVE take_rows(_, _, _)
take_rows(rows, mask, i) ==
    IF i > Len(rows) THEN << >>
    ELSE (IF mask[i] THEN <<rows[i]>> ELSE << >>) \o take_rows(rows, mask, i + 1)

Column(t, c) == [i \in 1..Len(t.rows) |-> t.rows[i][c]]

\* Series.dropna() of a numeric column.
dropna(s) == SelectSeq(s, LAMBDA v : ~isna(v))

(***************************************************************************)
(* load_and_preprocess, stage by stage.                                    *)
(***************************************************************************)
num_cols == <<"temp", "do_mg_l", "ph", "conductivity", "bod_mg_l",
              "nitrate_mg_l", "fecal_coliform", "total_coliform">>

NumCols == {num_cols[i] : i \in 1..Len(num_cols)}

\* The friendly rename map (normalised header -> clean name).
rename_map ==
    [k \in {"station_code", "locations", "state", "temp", "d_o_mg_l", "ph",
            "conductivity_hos_cm", "b_o_d_mg_l", "nitratenan_n_nitritenann_mg_l",
            "fecal_coliform_mpn_100ml", "total_coliform_mpn_100ml_mean", "year"} |->
        CASE k = "locations"                     -> "location"
          [] k = "d_o_mg_l"                      -> "do_mg_l"
          [] k = "conductivity_hos_cm"           -> "conductivity"
          [] k = "b_o_d_mg_l"                    -> "bod_mg_l"
          [] k = "nitratenan_n_nitritenann_mg_l" -> "nitrate_mg_l"
          [] k = "fecal_coliform_mpn_100ml"      -> "fecal_coliform"
          [] k = "total_coliform_mpn_100ml_mean" -> "total_coliform"
          [] OTHER                               -> k]

\* Only the keys that exist are renamed; other headers pass through.
renamed(c) == IF c \in DOMAIN rename_map THEN rename_map[c] ELSE c

\* Stage 2 on one header text: .str.strip().str.lower(), every run of
\* characters outside a-z0-9 replaced by "_", then .str.strip("_").
lower_char(c) == IF IndexIn(c, Uppers) > 0 THEN Lowers[IndexIn(c, Uppers)] ELSE c

str_lower(s) == [i \in 1..Len(s) |-> lower_char(s[i])]

is_alnum(c) == IndexIn(c, Lowers) > 0 \/ IsDigit(c)

RECURSIVE skip_run(_)
skip_run(s) == IF s # << >> /\ ~is_alnum(Head(s)) THEN skip_run(Tail(s)) ELSE s

\* Mutant: every character outside a-z0-9 becomes an underscore of its own.
replace_each(s) == [i \in 1..Len(s) |-> IF is_alnum(s[i]) THEN s[i] ELSE "_"]

RECURSIVE replace_runs(_)
replace_runs(s) ==
    IF s = << >> THEN << >>
    ELSE IF is_alnum(Head(s)) THEN <<Head(s)>> \o replace_runs(Tail(s))
    ELSE <<"_">> \o replace_runs(skip_run(s))

RECURSIVE strip_underscores(_)
strip_underscores(s) ==
    IF s # << >> /\ Head(s) = "_" THEN strip_underscores(Tail(s))
    ELSE IF s # << >> /\ s[Len(s)] = "_"
    THEN strip_underscores(SubSeq(s, 1, Len(s) - 1))
    ELSE s

normalize_header(h) == strip_underscores(replace_runs(str_lower(str_strip(h))))

\* A header text as the column name it spells.
RECURSIVE to_str(_)
to_str(s) == IF s = << >> THEN "" ELSE Head(s) \o to_str(Tail(s))

\* The clean names of the rename map, letter by letter.
clean_text(name) ==
    CASE name = "station_code" -> <<"s","t","a","t","i","o","n","_","c","o","d","e">>
      [] name = "location" -> <<"l","o","c","a","t","i","o","n">>
      [] name = "state" -> <<"s","t","a","t","e">>
      [] name = "temp" -> <<"t","e","m","p">>
      [] name = "do_mg_l" -> <<"d","o","_","m","g","_","l">>
      [] name = "ph" -> <<"p","h">>
      [] name = "conductivity" -> <<"c","o","n","d","u","c","t","i","v","i","t","y">>
      [] name = "bod_mg_l" -> <<"b","o","d","_","m","g","_","l">>
      [] name = "nitrate_mg_l" -> <<"n","i","t","r","a","t","e","_","m","g","_","l">>
      [] name = "fecal_coliform" -> <<"f","e","c","a","l","_","c","o","l","i","f","o","r","m">>
      [] name = "total_coliform" -> <<"t","o","t","a","l","_","c","o","l","i","f","o","r","m">>
      [] name = "year" -> <<"y","e","a","r">>

\* df.rename(columns=rename_map) on one normalised header text.
rename_header(n) ==
    IF to_str(n) \in DOMAIN rename_map THEN clean_text(rename_map[to_str(n)]) ELSE n

\* Stage 2 on the header line: the set of resulting header texts.
standardise(headers) == {rename_header(normalize_header(h)) : h \in headers}

\* Stages 1-2: read the file and rename its columns.
read_and_rename(file) ==
    LET back(c) == CHOOSE k \in file.columns : renamed(k) = c
        cols    == {renamed(k) : k \in file.columns}
    IN  Table(cols,
              [i \in 1..Len(file.rows) |->
                  [c \in cols |-> read_cell(file.rows[i][back(c)])]])

\* Stage 3: year -> number, date -> the calendar year (missing stays missing).
convert_year(t) ==
    IF "year" \in t.columns
    THEN LET y == SetCol(t, "year", [i \in Index(t) |-> to_numeric(t.rows[i]["year"], 1)])
         IN  SetCol(y, "date", Column(y, "year"))
    ELSE t

\* Mutant: the token NAN read as the number 0.
coerce_cell_nan_zero(t) ==
    LET s == str_upper(str_strip(astype_str(t)))
    IN  IF s = <<"N","A","N">> THEN 0 ELSE to_numeric(s, Unit)

\* Stage 4: one cell of a measurement column.
coerce_cell(t) ==
    LET s == str_upper(str_strip(astype_str(t)))
    IN  IF s = <<"N","A","N">> THEN NaN ELSE to_numeric(s, Unit)

coerce_numerics(t) ==
    Table(t.columns,
          [i \in 1..Len(t.rows) |->
              [k \in t.columns |->
                  IF k \in NumCols THEN coerce_cell(t.rows[i][k]) ELSE t.rows[i][k]]])

\* Mutant: keep="last".
duplicated_keep_last(rows) ==
    [i \in 1..Len(rows) |-> \E j \in (i + 1)..Len(rows) : rows[j] = rows[i]]

\* Stage 5: DataFrame.drop_duplicates (keep="first", all columns).
duplicated(rows) == [i \in 1..Len(rows) |-> \E j \in 1..(i - 1) : rows[j] = rows[i]]

drop_duplicates(t) ==
    LET dup == duplicated(t.rows)
    IN  Table(t.columns,
              take_rows(t.rows, [i \in 1..Len(t.rows) |-> ~dup[i]], 1))

\* Stage 6: Series.median (missing values skipped) and fillna.
RECURSIVE insert_sorted(_, _)
insert_sorted(v, s) ==
    IF s = << >> THEN <<v>>
    ELSE IF v <= Head(s) THEN <<v>> \o s
    ELSE <<Head(s)>> \o insert_sorted(v, Tail(s))

RECURSIVE sort_values(_)
sort_values(s) ==
    IF s = << >> THEN << >> ELSE insert_sorted(Head(s), sort_values(Tail(s)))

\* Mutant: the lower middle value instead of the mean of the two middle ones.
median_low(s) ==
    LET v == sort_values(dropna(s))
        n == Len(v)
    IN  IF n = 0 THEN NaN ELSE v[(n + 1) \div 2]

median(s) ==
    LET v == sort_values(dropna(s))
        n == Len(v)
    IN  IF n = 0 THEN NaN
        ELSE IF n % 2 = 1 THEN v[(n + 1) \div 2]
        ELSE (v[n \div 2] + v[n \div 2 + 1]) \div 2

fillna(v, m) == IF isna(v) THEN m ELSE v

\* Mutant: the fill lands on a copy of the column and the frame keeps its
\* missing values.
impute_on_copy(t) == t

\* Mutant: duplicates are dropped once more after the median fill.
impute_then_dedup(t) ==
    drop_duplicates(
        Table(t.columns,
              [i \in 1..Len(t.rows) |->
                  [k \in t.columns |->
                      IF k \in NumCols
                      THEN fillna(t.rows[i][k], median(Column(t, k)))
                      ELSE t.rows[i][k]]]))

impute(t) ==
    Table(t.columns,
          [i \in 1..Len(t.rows) |->
              [k \in t.columns |->
                  IF k \in NumCols
                  THEN fillna(t.rows[i][k], median(Column(t, k)))
                  ELSE t.rows[i][k]]])

(***************************************************************************)
(* Stages 7-9: the derived columns.  Thresholds in twentieths.             *)
(***************************************************************************)
PH_LOW == 130
PH_HIGH == 170
EC_LOW == 5000
EC_HIGH == 15000
DO_MIN == 100
BOD_MAX == 60
FC_MAX == 10000

\* Mutant: 6.5 itself counted as Acidic.
classify_ph_exclusive(val) ==
    IF isna(val) THEN "Unknown"
    ELSE IF val <= PH_LOW THEN "Acidic"
    ELSE IF val <= PH_HIGH THEN "Neutral"
    ELSE "Alkaline"

\* Mutant: no test for a missing value, which then fails both comparisons.
classify_ph_no_nan_check(val) ==
    IF Lt(val, PH_LOW) THEN "Acidic"
    ELSE IF Le(val, PH_HIGH) THEN "Neutral"
    ELSE "Alkaline"

classify_ph(val) ==
    IF isna(val) THEN "Unknown"
    ELSE IF val < PH_LOW THEN "Acidic"
    ELSE IF val <= PH_HIGH THEN "Neutral"
    ELSE "Alkaline"

\* Mutant: 750 itself counted as High.
classify_ec_exclusive(val) ==
    IF isna(val) THEN "Unknown"
    ELSE IF val < EC_LOW THEN "Low"
    ELSE IF val < EC_HIGH THEN "Medium"
    ELSE "High"

classify_ec(val) ==
    IF isna(val) THEN "Unknown"
    ELSE IF val < EC_LOW THEN "Low"
    ELSE IF val <= EC_HIGH THEN "Medium"
    ELSE "High"

\* Mutant: DO of exactly 5 counted as a violation.
check_compliance_do_inclusive(row) ==
    LET has(c) == c \in DOMAIN row
    IN  IF \/ has("ph") /\ ~(Le(PH_LOW, row["ph"]) /\ Le(row["ph"], PH_HIGH))
           \/ has("do_mg_l") /\ Le(row["do_mg_l"], DO_MIN)
           \/ has("bod_mg_l") /\ Gt(row["bod_mg_l"], BOD_MAX)
           \/ has("fecal_coliform") /\ Gt(row["fecal_coliform"], FC_MAX)
        THEN "Non-Compliant" ELSE "Compliant"

\* Mutant: a column that is not in the row counted as a violation.
check_compliance_absent_fails(row) ==
    LET has(c) == c \in DOMAIN row
    IN  IF \/ ~has("ph") \/ ~(Le(PH_LOW, row["ph"]) /\ Le(row["ph"], PH_HIGH))
           \/ ~has("do_mg_l") \/ Lt(row["do_mg_l"], DO_MIN)
           \/ ~has("bod_mg_l") \/ Gt(row["bod_mg_l"], BOD_MAX)
           \/ ~has("fecal_coliform") \/ Gt(row["fecal_coliform"], FC_MAX)
        THEN "Non-Compliant" ELSE "Compliant"

\* "c in row" is membership in the row's index; a comparison with a
\* missing value is false.
\* Mutant: the pH check written as two comparisons, ph < 6.5 or ph > 8.5.
check_compliance_ph_outside(row) ==
    LET has(c) == c \in DOMAIN row
        flags ==
            (IF has("ph") /\ (Lt(row["ph"], PH_LOW) \/ Gt(row["ph"], PH_HIGH))
             THEN <<"pH">> ELSE << >>)
            \o (IF has("do_mg_l") /\ Lt(row["do_mg_l"], DO_MIN)
                THEN <<"DO">> ELSE << >>)
            \o (IF has("bod_mg_l") /\ Gt(row["bod_mg_l"], BOD_MAX)
                THEN <<"BOD">> ELSE << >>)
            \o (IF has("fecal_coliform") /\ Gt(row["fecal_coliform"], FC_MAX)
                THEN <<"FC">> ELSE << >>)
    IN  IF flags # << >> THEN "Non-Compliant" ELSE "Compliant"

check_compliance(row) ==
    LET has(c) == c \in DOMAIN row
        flags ==
            (IF has("ph") /\ ~(Le(PH_LOW, row["ph"]) /\ Le(row["ph"], PH_HIGH))
             THEN <<"pH">> ELSE << >>)
            \o (IF has("do_mg_l") /\ Lt(row["do_mg_l"], DO_MIN)
                THEN <<"DO">> ELSE << >>)
            \o (IF has("bod_mg_l") /\ Gt(row["bod_mg_l"], BOD_MAX)
                THEN <<"BOD">> ELSE << >>)
            \o (IF has("fecal_coliform") /\ Gt(row["fecal_coliform"], FC_MAX)
                THEN <<"FC">> ELSE << >>)
    IN  IF flags # << >> THEN "Non-Compliant" ELSE "Compliant"

add_ph_status(t) ==
    SetCol(t, "ph_status",
           [i \in Index(t) |->
               IF "ph" \in t.columns THEN classify_ph(t.rows[i]["ph"]) ELSE "Unknown"])

add_ec_level(t) ==
    SetCol(t, "ec_level",
           [i \in Index(t) |->
               IF "conductivity" \in t.columns
               THEN classify_ec(t.rows[i]["conductivity"]) ELSE "Unknown"])

add_compliance(t) ==
    SetCol(t, "compliance_status", [i \in Index(t) |-> check_compliance(t.rows[i])])

classify(t) == add_compliance(add_ec_level(add_ph_status(t)))

(***************************************************************************)
(* Stage 10: DataFrame.to_csv(index=False), cell by cell.                  *)
(***************************************************************************)
RECURSIVE nat_digits(_)
nat_digits(n) ==
    IF n < 10 THEN <<Digits[n + 1]>>
    ELSE nat_digits(n \div 10) \o <<Digits[(n % 10) + 1]>>

\* A float counted in 1/unit, in its shortest decimal form; missing is the
\* empty text.
format_float(v, unit) ==
    IF isna(v) THEN << >>
    ELSE LET h == ((v % unit) * 100) \div unit
         IN  nat_digits(v \div unit) \o <<".">>
             \o (IF h % 10 = 0 THEN nat_digits(h \div 10)
                 ELSE <<Digits[(h \div 10) + 1], Digits[(h % 10) + 1]>>)

\* The year column is int64 when complete and float64 when a year is missing.
format_year(v, col) ==
    IF \E i \in 1..Len(col) : isna(col[i]) THEN format_float(v, 1) ELSE nat_digits(v)

\* A datetime64 cell of the first of January; NaT is the empty text.
format_date(v) ==
    IF isna(v) THEN << >> ELSE nat_digits(v) \o <<"-","0","1","-","0","1">>

\* The derived labels, letter by letter.
label_text(l) ==
    CASE l = "Acidic"        -> <<"A","c","i","d","i","c">>
      [] l = "Neutral"       -> <<"N","e","u","t","r","a","l">>
      [] l = "Alkaline"      -> <<"A","l","k","a","l","i","n","e">>
      [] l = "Unknown"       -> <<"U","n","k","n","o","w","n">>
      [] l = "Low"           -> <<"L","o","w">>
      [] l = "Medium"        -> <<"M","e","d","i","u","m">>
      [] l = "High"          -> <<"H","i","g","h">>
      [] l = "Compliant"     -> <<"C","o","m","p","l","i","a","n","t">>
      [] l = "Non-Compliant" -> <<"N","o","n","-","C","o","m","p","l","i","a","n","t">>

format_text(t) == IF t = NoText THEN << >> ELSE t

\* The processed file: the frame's column names as the header line and one
\* line of cell texts per record.
to_csv(t) ==
    Table(t.columns,
          [i \in 1..Len(t.rows) |->
              [k \in t.columns |->
                  IF k \in NumCols THEN format_float(t.rows[i][k], Unit)
                  ELSE IF k = "year" THEN format_year(t.rows[i][k], Column(t, k))
                  ELSE IF k = "date" THEN format_date(t.rows[i][k])
                  ELSE IF k \in {"ph_status", "ec_level", "compliance_status"}
                  THEN label_text(t.rows[i][k])
                  ELSE format_text(t.rows[i][k])]])

(***************************************************************************)
(* add_map_coords and detect_anomalies.                                    *)
(***************************************************************************)
\* Centroids in ten-thousandths of a degree; NoCoord is (nan, nan).
NoCoord == <<NaN, NaN>>

STATE_COORDS ==
    [k \in {<<"A","S","S","A","M">>, <<"B","I","H","A","R">>,
            <<"D","E","L","H","I">>, <<"G","O","A">>} |->
        CASE k = <<"A","S","S","A","M">> -> <<262006, 929376>>
          [] k = <<"B","I","H","A","R">> -> <<250961, 853131>>
          [] k = <<"D","E","L","H","I">> -> <<287041, 771025>>
          [] k = <<"G","O","A">>         -> <<152993, 741240>>]

coords_get(s) == IF s \in DOMAIN STATE_COORDS THEN STATE_COORDS[s] ELSE NoCoord

add_map_coords(t) ==
    LET u   == SetCol(t, "state_upper",
                      [i \in Index(t) |-> ser_upper(ser_strip(t.rows[i]["state"]))])
        lat == SetCol(u, "lat", [i \in Index(u) |-> coords_get(u.rows[i]["state_upper"])[1]])
    IN  SetCol(lat, "lon", [i \in Index(u) |-> coords_get(u.rows[i]["state_upper"])[2]])

RECURSIVE sum_seq(_)
sum_seq(s) == IF s = << >> THEN 0 ELSE Head(s) + sum_seq(Tail(s))

\* Mutant: the deviation is divided by the variance, s.var(), not s.std().
anomaly_flag_variance(x, s, threshold) ==
    LET n  == Len(s)
        S  == sum_seq(s)
        Q  == sum_seq([i \in 1..n |-> (n * s[i] - S) * (n * s[i] - S)])
        d  == IF n * x >= S THEN n * x - S ELSE S - n * x
    IN  /\ ~isna(x)
        /\ n >= 2
        /\ d * n * (n - 1) * Unit > threshold * Q

\* Mutant: a score equal to the threshold is flagged.
anomaly_flag_inclusive(x, s, threshold) ==
    LET n  == Len(s)
        S  == sum_seq(s)
        Q  == sum_seq([i \in 1..n |-> (n * s[i] - S) * (n * s[i] - S)])
    IN  /\ ~isna(x)
        /\ n >= 2
        /\ (n * x - S) * (n * x - S) * (n - 1) >= threshold * threshold * Q

\* |x - mean| / std > threshold with the sample standard deviation, in
\* exact arithmetic: with n values of sum S and Q = sum of (n*x_i - S)^2,
\* it reads (n*x - S)^2 * (n - 1) > threshold^2 * Q.  With fewer than two
\* values, or a missing x, the score is NaN and the comparison false.
anomaly_flag(x, s, threshold) ==
    LET n  == Len(s)
        S  == sum_seq(s)
        Q  == sum_seq([i \in 1..n |-> (n * s[i] - S) * (n * s[i] - S)])
    IN  /\ ~isna(x)
        /\ n >= 2
        /\ (n * x - S) * (n * x - S) * (n - 1) > threshold * threshold * Q

\* s.std() of the non-missing values s: undefined (nan) below two values,
\* zero when they are all equal.
std_kind(s) ==
    LET n == Len(s)
        S == sum_seq(s)
    IN  IF n < 2 THEN "nan"
        ELSE IF \A i \in 1..n : n * s[i] = S THEN "zero"
        ELSE "positive"

\* (x - s.mean()) / s.std(), computed for every record whatever the standard
\* deviation is: 0/0 and x/nan are nan, a non-zero difference over 0 is inf.
zscore_kind(x, s) ==
    IF isna(x) \/ std_kind(s) = "nan" THEN "nan"
    ELSE IF std_kind(s) = "zero"
    THEN (IF Len(s) * x = sum_seq(s) THEN "nan" ELSE "inf")
    ELSE "finite"

anomaly_col(col) == col \o "_anomaly"

\* Mutant: records already flagged by an earlier call are left out of the
\* mean and the standard deviation.
detect_anomalies_skip_flagged(t, col, threshold) ==
    LET kept == SelectSeq(t.rows, LAMBDA r : anomaly_col(col) \notin t.columns
                                              \/ ~r[anomaly_col(col)])
        s    == dropna([i \in 1..Len(kept) |-> kept[i][col]])
    IN  SetCol(t, anomaly_col(col),
               [i \in Index(t) |-> anomaly_flag(t.rows[i][col], s, threshold)])

\* Mutant: the statistics are taken over the records that have no missing
\* measurement at all (df.dropna()[col] instead of df[col].dropna()).
detect_anomalies_complete_rows(t, col, threshold) ==
    LET kept == SelectSeq(t.rows, LAMBDA r : \A k \in t.columns \cap NumCols : ~isna(r[k]))
        s    == [i \in 1..Len(kept) |-> kept[i][col]]
    IN  SetCol(t, anomaly_col(col),
               [i \in Index(t) |-> anomaly_flag(t.rows[i][col], s, threshold)])

detect_anomalies(t, col, threshold) ==
    LET s == dropna(Column(t, col))
    IN  SetCol(t, anomaly_col(col),
               [i \in Index(t) |-> anomaly_flag(t.rows[i][col], s, threshold)])

DEFAULT_THRESHOLD == 3

\* Mutant: the loop leaves out the last column of its list.
anomaly_params_short == <<"ph", "conductivity", "bod_mg_l", "do_mg_l">>

anomaly_params == <<"ph", "conductivity", "bod_mg_l", "do_mg_l", "fecal_coliform">>

\* The loop of the script body: every listed column that is present.
RECURSIVE detect_all(_, _)
detect_all(t, cs) ==
    IF cs = << >> THEN t
    ELSE detect_all(IF Head(cs) \in t.columns
                    THEN detect_anomalies(t, Head(cs), DEFAULT_THRESHOLD)
                    ELSE t,
                    Tail(cs))

(***************************************************************************)
(* The script body after the data is loaded: sidebar, filter, sections.    *)
(***************************************************************************)
SECTIONS == <<"Introduction", "Dataset Details", "Interactive Dashboard",
              "Government Initiatives", "Conclusion">>

\* A selectbox that was not rendered in a run holds no value.
NoChoice == "-"

map_params == <<"ph", "conductivity", "do_mg_l", "bod_mg_l", "fecal_coliform">>

SeqSet(s) == {s[i] : i \in 1..Len(s)}

\* sorted(df["state"].dropna().unique()) and the years, as sets.
all_states(t) == {t.rows[i]["state"] : i \in 1..Len(t.rows)} \ {NoText}
all_years(t) == {t.rows[i]["year"] : i \in 1..Len(t.rows)} \ {NaN}

SetMin(S) == CHOOSE x \in S : \A y \in S : x <= y
SetMax(S) == CHOOSE x \in S : \A y \in S : x >= y

\* Mutant: an empty selection matches no region.
mask_no_allpass(t, states, years) ==
    [i \in 1..Len(t.rows) |->
        /\ t.rows[i]["state"] \in states
        /\ Le(years[1], t.rows[i]["year"])
        /\ Le(t.rows[i]["year"], years[2])]

\* Mutant: the year test written as "not before lo and not after hi", which
\* a missing year passes.
mask_not_outside(t, states, years) ==
    [i \in 1..Len(t.rows) |->
        /\ (states # {} => t.rows[i]["state"] \in states)
        /\ ~Lt(t.rows[i]["year"], years[1])
        /\ ~Gt(t.rows[i]["year"], years[2])]

\* The filter mask and the filtered copy.
mask(t, states, years) ==
    [i \in 1..Len(t.rows) |->
        /\ (states # {} => t.rows[i]["state"] \in states)
        /\ Le(years[1], t.rows[i]["year"])
        /\ Le(t.rows[i]["year"], years[2])]

apply_filters(t, states, years) ==
    Table(t.columns, take_rows(t.rows, mask(t, states, years), 1))

Shown(status, recomputed, n_anomalies) ==
    [status |-> status, recomputed |-> recomputed, n_anomalies |-> n_anomalies]

NothingShown == Shown("none", FALSE, 0)

count_true(s) == Len(SelectSeq(s, LAMBDA b : b))

Rendered(d, mp, ap, sh) == [dff |-> d, map_param |-> mp, anomaly_param |-> ap, shown |-> sh]

\* Mutant: the anomaly chart recomputes the flags over the filtered copy
\* whether or not the flag column is there.
dashboard_always_recompute(d, mp_in, ap_in) ==
    IF d.rows = << >>
    THEN Rendered(d, NoChoice, NoChoice, Shown("stopped", FALSE, 0))
    ELSE IF ~({"ph", "conductivity", "state", "year"} \subseteq d.columns)
    THEN Rendered(d, NoChoice, NoChoice, Shown("raised", FALSE, 0))
    ELSE
      LET mp   == IF mp_in = NoChoice THEN map_params[1] ELSE mp_in
          opts == SelectSeq(anomaly_params, LAMBDA c : c \in d.columns)
          ap   == IF ap_in \in SeqSet(opts) THEN ap_in ELSE opts[1]
          d2   == detect_anomalies(d, ap, DEFAULT_THRESHOLD)
      IN  IF ~({mp, "lat", "lon", "bod_mg_l", "ph_status"} \subseteq d.columns)
          THEN Rendered(d, mp, NoChoice, Shown("raised", FALSE, 0))
          ELSE IF "location" \notin d.columns
          THEN Rendered(d2, mp, ap, Shown("raised", TRUE, 0))
          ELSE Rendered(d2, mp, ap,
                        Shown("rendered", TRUE,
                              count_true(Column(d2, anomaly_col(ap)))))

\* Section 3 without the test of an empty subset.
dashboard_no_empty_check(d, mp_in, ap_in) ==
    IF ~({"ph", "conductivity", "state", "year"} \subseteq d.columns)
    THEN Rendered(d, NoChoice, NoChoice, Shown("raised", FALSE, 0))
    ELSE
      LET mp   == IF mp_in = NoChoice THEN map_params[1] ELSE mp_in
          opts == SelectSeq(anomaly_params, LAMBDA c : c \in d.columns)
          ap   == IF ap_in \in SeqSet(opts) THEN ap_in ELSE opts[1]
          miss == anomaly_col(ap) \notin d.columns
          d2   == IF miss THEN detect_anomalies(d, ap, DEFAULT_THRESHOLD) ELSE d
      IN  IF ~({mp, "lat", "lon", "bod_mg_l", "ph_status"} \subseteq d.columns)
          THEN Rendered(d, mp, NoChoice, Shown("raised", FALSE, 0))
          ELSE IF "location" \notin d.columns
          THEN Rendered(d2, mp, ap, Shown("raised", miss, 0))
          ELSE Rendered(d2, mp, ap,
                        Shown("rendered", miss,
                              count_true(Column(d2, anomaly_col(ap)))))

\* Section 3.  The charts read their columns without a presence check.
dashboard(d, mp_in, ap_in) ==
    IF d.rows = << >>
    THEN Rendered(d, NoChoice, NoChoice, Shown("stopped", FALSE, 0))
    ELSE IF ~({"ph", "conductivity", "state", "year"} \subseteq d.columns)
    THEN Rendered(d, NoChoice, NoChoice, Shown("raised", FALSE, 0))
    ELSE
      LET mp   == IF mp_in = NoChoice THEN map_params[1] ELSE mp_in
          opts == SelectSeq(anomaly_params, LAMBDA c : c \in d.columns)
          ap   == IF ap_in \in SeqSet(opts) THEN ap_in ELSE opts[1]
          miss == anomaly_col(ap) \notin d.columns
          d2   == IF miss THEN detect_anomalies(d, ap, DEFAULT_THRESHOLD) ELSE d
      IN  IF ~({mp, "lat", "lon", "bod_mg_l", "ph_status"} \subseteq d.columns)
          THEN Rendered(d, mp, NoChoice, Shown("raised", FALSE, 0))
          ELSE IF "location" \notin d.columns
          THEN Rendered(d2, mp, ap, Shown("raised", miss, 0))
          ELSE Rendered(d2, mp, ap,
                        Shown("rendered", miss,
                              count_true(Column(d2, anomaly_col(ap)))))

render(section, t, d, mp_in, ap_in) ==
    IF section = SECTIONS[3] THEN dashboard(d, mp_in, ap_in)
    ELSE IF section = SECTIONS[2] /\ ~({"station_code", "state", "year"} \subseteq t.columns)
    THEN Rendered(d, NoChoice, NoChoice, Shown("raised", FALSE, 0))
    ELSE Rendered(d, NoChoice, NoChoice, Shown("static", FALSE, 0))

\* Mutant: the filtered rows are assigned back to df.
filter_step_inplace(t, states, years) ==
    [df |-> apply_filters(t, states, years),
     dff |-> apply_filters(t, states, years)]

\* The mask is applied to df and the result copied into dff;
\* df itself is left as it is.
filter_step(t, states, years) ==
    [df |-> t, dff |-> apply_filters(t, states, years)]

\* .str is only there for a column of texts: an all-missing column of a
\* non-empty table is a float column.
has_text_column(t, c) ==
    /\ c \in t.columns
    /\ (t.rows = << >> \/ \E i \in 1..Len(t.rows) : t.rows[i][c] # NoText)

\* st.cache_data hands out a copy of the stored table.
cached_value(c) == c[1]

(***************************************************************************)
(* Actions: the first run executes load_and_preprocess stage by stage.     *)
(***************************************************************************)
\* Execution counts, counted up to MaxCount.
MaxCount == 2

NotRun == [part \in {"load_and_preprocess", "add_map_coords", "detect_anomalies"} |-> 0]

Ran(ex, parts) ==
    [part \in DOMAIN ex |->
        IF part \in parts /\ ex[part] < MaxCount THEN ex[part] + 1 ELSE ex[part]]

widgets == <<nav, sel_states, year_range, map_param, anomaly_param, shown>>

Load ==
    /\ pc = "start" /\ cache = << >>
    /\ df' = read_and_rename(raw)
    /\ pc' = "year"
    /\ UNCHANGED <<raw, cache, csv, dff, widgets>>
    /\ executed' = Ran(executed, {"load_and_preprocess"})

ConvertYear ==
    /\ pc = "year"
    /\ df' = convert_year(df)
    /\ pc' = "coerce"
    /\ UNCHANGED <<raw, cache, csv, dff, widgets, executed>>

Coerce ==
    /\ pc = "coerce"
    /\ df' = coerce_numerics(df)
    /\ pc' = "dedup"
    /\ UNCHANGED <<raw, cache, csv, dff, widgets, executed>>

Dedup ==
    /\ pc = "dedup"
    /\ df' = drop_duplicates(df)
    /\ pc' = "impute"
    /\ UNCHANGED <<raw, cache, csv, dff, widgets, executed>>

Impute ==
    /\ pc = "impute"
    /\ df' = impute(df)
    /\ pc' = "classify"
    /\ UNCHANGED <<raw, cache, csv, dff, widgets, executed>>

Classify ==
    /\ pc = "classify"
    /\ df' = classify(df)
    /\ pc' = "save"
    /\ UNCHANGED <<raw, cache, csv, dff, widgets, executed>>

\* to_csv, then the return value is stored by st.cache_data.
Save ==
    /\ pc = "save"
    /\ csv' = Append(csv, to_csv(df))
    /\ cache' = <<df>>
    /\ pc' = "coords"
    /\ UNCHANGED <<raw, df, dff, widgets, executed>>

AddCoords ==
    /\ pc = "coords"
    /\ IF has_text_column(df, "state")
       THEN df' = add_map_coords(df) /\ pc' = "anomalies"
       ELSE df' = df /\ pc' = "raised"
    /\ UNCHANGED <<raw, cache, csv, dff, widgets>>
    /\ executed' = Ran(executed, {"add_map_coords"})

Anomalies ==
    /\ pc = "anomalies"
    /\ df' = detect_all(df, anomaly_params)
    /\ pc' = "sidebar"
    /\ UNCHANGED <<raw, cache, csv, dff, widgets>>
    /\ executed' = Ran(executed, {"detect_anomalies"})

\* First rendering of the sidebar: every widget takes its default.
Sidebar ==
    /\ pc = "sidebar"
    /\ IF "year" \in df.columns /\ all_years(df) # {}
       THEN /\ nav' = SECTIONS[1]
            /\ sel_states' = all_states(df)
            /\ year_range' = <<SetMin(all_years(df)), SetMax(all_years(df))>>
            /\ pc' = "filter"
       ELSE /\ UNCHANGED <<nav, sel_states, year_range>>
            /\ pc' = "raised"
    /\ UNCHANGED <<raw, df, cache, csv, dff, map_param, anomaly_param, shown, executed>>

Filter ==
    /\ pc = "filter"
    /\ \E f \in {filter_step(df, sel_states, year_range)} :
          df' = f.df /\ dff' = f.dff
    /\ pc' = "section"
    /\ UNCHANGED <<raw, cache, csv, widgets, executed>>

Section ==
    /\ pc = "section"
    /\ \E r \in {render(nav, df, dff, NoChoice, NoChoice)} :
          /\ dff' = r.dff
          /\ map_param' = r.map_param
          /\ anomaly_param' = r.anomaly_param
          /\ shown' = r.shown
    /\ pc' = "idle"
    /\ UNCHANGED <<raw, df, cache, csv, nav, sel_states, year_range, executed>>

(***************************************************************************)
(* Actions: a widget interaction stores the new widget value and starts a  *)
(* new run of the script, which discards the previous run's filtered copy. *)
(* The run calls load_and_preprocess, which st.cache_data answers from the *)
(* cache, and executes the rest of the script.                             *)
(***************************************************************************)
Interact(section, states, years, mp, ap) ==
    /\ pc = "idle"
    /\ pc' = "start"
    /\ nav' = section
    /\ sel_states' = states
    /\ year_range' = years
    /\ map_param' = mp
    /\ anomaly_param' = ap
    /\ dff' = EmptyTable
    /\ shown' = NothingShown
    /\ UNCHANGED <<raw, df, cache, csv, executed>>

Navigate ==
    \E n \in SeqSet(SECTIONS) :
        Interact(n, sel_states, year_range, map_param, anomaly_param)

SelectStates ==
    /\ pc = "idle"
    /\ \E S \in SUBSET all_states(df) :
          Interact(nav, S, year_range, map_param, anomaly_param)

SelectYears ==
    /\ pc = "idle"
    /\ \E lo \in SetMin(all_years(df))..SetMax(all_years(df)) :
       \E hi \in lo..SetMax(all_years(df)) :
          Interact(nav, sel_states, <<lo, hi>>, map_param, anomaly_param)

SelectMapParam ==
    /\ pc = "idle" /\ map_param # NoChoice
    /\ \E p \in SeqSet(map_params) :
          Interact(nav, sel_states, year_range, p, anomaly_param)

SelectAnomalyParam ==
    /\ pc = "idle" /\ anomaly_param # NoChoice
    /\ \E p \in SeqSet(anomaly_params) \cap df.columns :
          Interact(nav, sel_states, year_range, map_param, p)

Rerun ==
    /\ pc = "start" /\ cache # << >>
    /\ \E t \in {detect_all(add_map_coords(cached_value(cache)), anomaly_params)} :
       \E f \in {filter_step(t, sel_states, year_range)} :
       \E r \in {render(nav, f.df, f.dff, map_param, anomaly_param)} :
          /\ df' = f.df
          /\ dff' = r.dff
          /\ map_param' = r.map_param
          /\ anomaly_param' = r.anomaly_param
          /\ shown' = r.shown
    /\ pc' = "idle"
    /\ UNCHANGED <<raw, cache, csv, nav, sel_states, year_range>>
    /\ executed' = Ran(executed, {"add_map_coords", "detect_anomalies"})

\* load_and_preprocess called on the processed file it wrote: another
\* file path, which st.cache_data has no entry for.
Reprocess ==
    /\ pc = "coords" /\ Len(csv) = 1
    /\ raw' = csv[1]
    /\ df' = EmptyTable
    /\ cache' = << >>
    /\ pc' = "start"
    /\ UNCHANGED <<csv, dff, widgets, executed>>

NextLoad == Load \/ ConvertYear \/ Coerce \/ Dedup \/ Impute \/ Classify \/ Save

Next ==
    \/ Load \/ ConvertYear \/ Coerce \/ Dedup \/ Impute \/ Classify \/ Save
    \/ AddCoords \/ Anomalies \/ Sidebar \/ Filter \/ Section
    \/ Navigate \/ SelectStates \/ SelectYears \/ SelectMapParam
    \/ SelectAnomalyParam \/ Rerun

(***************************************************************************)
(* Input files.  A file is a table of cell texts under normalised headers. *)
(***************************************************************************)
Absent == <<"absent">>

\* The file with the given headers, a header being left out of the file
\* when its entry in every row is Absent.
FileOf(headers, rows) ==
    LET present == {h \in headers : \A i \in 1..Len(rows) : rows[i][h] # Absent}
    IN  Table(present, [i \in 1..Len(rows) |-> [h \in present |-> rows[i][h]]])

InitWith(file) ==
    /\ pc = "start"
    /\ raw = file
    /\ df = EmptyTable
    /\ cache = << >>
    /\ csv = << >>
    /\ dff = EmptyTable
    /\ nav = SECTIONS[1]
    /\ sel_states = {}
    /\ year_range = <<0, 0>>
    /\ map_param = NoChoice
    /\ anomaly_param = NoChoice
    /\ shown = NothingShown
    /\ executed = NotRun

\* Sequences over S of length lo..hi.
SeqsOf(S, lo, hi) == UNION {[1..n -> S] : n \in lo..hi}

(***************************************************************************)
(* Spec: whole sessions over small complete files.                         *)
(***************************************************************************)
MaxSessionRows == 2

SessionRows ==
    {[h \in {"station_code", "locations", "state", "year", "ph",
             "conductivity_hos_cm", "b_o_d_mg_l"} |->
        CASE h = "station_code"        -> <<"1">>
          [] h = "locations"           -> <<"X">>
          [] h = "state"               -> st
          [] h = "year"                -> yr
          [] h = "ph"                  -> ph
          [] h = "conductivity_hos_cm" -> <<"3","0","0">>
          [] h = "b_o_d_mg_l"          -> <<"2",".","0">>] :
     st \in {<<"G","O","A">>, <<"A","S","S","A","M">>},
     yr \in {<<"2","0","1","9">>, <<"2","0","2","0">>},
     ph \in {<<"6",".","4">>, <<"N","A","N">>}}

SessionHeaders ==
    {"station_code", "locations", "state", "year", "ph",
     "conductivity_hos_cm", "b_o_d_mg_l"}

Init ==
    \E rows \in SeqsOf(SessionRows, 1, MaxSessionRows) :
        InitWith(FileOf(SessionHeaders, rows))

Spec == Init /\ [][Next]_vars

(***************************************************************************)
(* SpecClean: load_and_preprocess over files of measurement columns.       *)
(***************************************************************************)
CleanTexts == {<<"7",".","0">>, <<"9",".","0">>, <<"N","A","N">>}

CleanSchemas ==
    {{h} : h \in {"temp", "d_o_mg_l", "ph", "conductivity_hos_cm", "b_o_d_mg_l",
                  "nitratenan_n_nitritenann_mg_l", "fecal_coliform_mpn_100ml",
                  "total_coliform_mpn_100ml_mean"}}
    \cup {{"ph", "conductivity_hos_cm"}, {"d_o_mg_l", "b_o_d_mg_l"},
          {"temp", "total_coliform_mpn_100ml_mean"}}

InitClean ==
    \E hs \in CleanSchemas :
    \E rows \in SeqsOf([hs -> CleanTexts], 0, MaxRows) :
        InitWith(Table(hs, rows))

SpecClean == InitClean /\ [][NextLoad]_vars

(***************************************************************************)
(* SpecRoundTrip: load_and_preprocess on a file, then on its own output.   *)
(***************************************************************************)
NextRoundTrip ==
    \/ Load \/ ConvertYear \/ Coerce \/ Dedup \/ Impute \/ Classify \/ Save
    \/ Reprocess

SpecRoundTrip == InitClean /\ [][NextRoundTrip]_vars

(***************************************************************************)
(* SpecRules: load_and_preprocess over one-record files whose classified   *)
(* columns take values around every threshold, or are left out.            *)
(***************************************************************************)
PhTexts == {<<"6",".","4">>, <<"6",".","5">>, <<"8",".","5">>, <<"8",".","6">>, <<"N","A","N">>}
DoTexts == {<<"4",".","9">>, <<"5">>, <<"N","A","N">>}
BodTexts == {<<"3",".","0">>, <<"3",".","1">>, <<"N","A","N">>}
FcTexts == {<<"5","0","0">>, <<"5","0","0",".","1">>, <<"N","A","N">>}
EcTexts == {<<"2","4","9",".","9">>, <<"2","5","0">>, <<"7","5","0">>, <<"7","5","0",".","1">>, <<"N","A","N">>}

RulesHeaders ==
    {"station_code", "ph", "d_o_mg_l", "b_o_d_mg_l", "fecal_coliform_mpn_100ml",
     "conductivity_hos_cm"}

InitRules ==
    \E ph \in PhTexts \cup {Absent}, do \in DoTexts \cup {Absent},
       bod \in BodTexts \cup {Absent}, fc \in FcTexts \cup {Absent},
       ec \in EcTexts \cup {Absent} :
        InitWith(FileOf(RulesHeaders,
            <<[h \in RulesHeaders |->
                CASE h = "station_code"             -> <<"1">>
                  [] h = "ph"                       -> ph
                  [] h = "d_o_mg_l"                 -> do
                  [] h = "b_o_d_mg_l"               -> bod
                  [] h = "fecal_coliform_mpn_100ml" -> fc
                  [] h = "conductivity_hos_cm"      -> ec]>>))

SpecRules == InitRules /\ [][NextLoad]_vars

(***************************************************************************)
(* SpecYears: whole sessions on files with a record of 2019, a record of   *)
(* 2020 and records whose year is an empty cell or a text that is no       *)
(* number.                                                                 *)
(***************************************************************************)
MaxYearRows == 2

YearRow(st, yr) ==
    [h \in SessionHeaders |->
        CASE h = "station_code"        -> <<"1">>
          [] h = "locations"           -> <<"X">>
          [] h = "state"               -> st
          [] h = "year"                -> yr
          [] h = "ph"                  -> <<"6",".","4">>
          [] h = "conductivity_hos_cm" -> <<"3","0","0">>
          [] h = "b_o_d_mg_l"          -> <<"2",".","0">>]

DatedRows ==
    <<YearRow(<<"G","O","A">>, <<"2","0","1","9">>),
      YearRow(<<"A","S","S","A","M">>, <<"2","0","2","0">>)>>

UndatedRows ==
    {YearRow(st, yr) : st \in {<<"G","O","A">>, <<"A","S","S","A","M">>},
                       yr \in {<< >>, <<"x">>}}

InitYears ==
    \E rows \in SeqsOf(UndatedRows, 1, MaxYearRows) :
    \E first \in BOOLEAN :
        InitWith(FileOf(SessionHeaders,
                        IF first THEN rows \o DatedRows ELSE DatedRows \o rows))

SpecYears == InitYears /\ [][Next]_vars

(***************************************************************************)
(* SpecFlags: whole sessions on a file large enough for the default        *)
(* threshold to flag a value: every pH is 7.0 but one, which is 9.0.       *)
(***************************************************************************)
FlagRows == 11

FlagFile(k) ==
    FileOf(SessionHeaders,
        [i \in 1..FlagRows |->
            [h \in SessionHeaders |->
                CASE h = "station_code"        -> nat_digits(i)
                  [] h = "locations"           -> <<"X">>
                  [] h = "state"               -> IF 2 * i <= FlagRows + 1
                                                  THEN <<"G","O","A">>
                                                  ELSE <<"A","S","S","A","M">>
                  [] h = "year"                -> IF i % 2 = 1
                                                  THEN <<"2","0","1","9">>
                                                  ELSE <<"2","0","2","0">>
                  [] h = "ph"                  -> IF i = k THEN <<"9",".","0">>
                                                  ELSE <<"7",".","0">>
                  [] h = "conductivity_hos_cm" -> <<"3","0","0">>
                  [] h = "b_o_d_mg_l"          -> <<"2",".","0">>]])

InitFlags == \E k \in 1..FlagRows : InitWith(FlagFile(k))

SpecFlags == InitFlags /\ [][Next]_vars

(***************************************************************************)
(* SpecEnrich: the seven stages (load_and_preprocess, add_map_coords, the  *)
(* anomaly loop) over one-record files with any subset of the semantic     *)
(* columns, and over files whose region names are padded, mixed-case,      *)
(* unknown or missing.                                                     *)
(***************************************************************************)
MaxEnrichRows == 2

SemanticHeaders ==
    {"station_code", "state", "year", "temp", "d_o_mg_l", "ph",
     "conductivity_hos_cm", "b_o_d_mg_l", "nitratenan_n_nitritenann_mg_l",
     "fecal_coliform_mpn_100ml", "total_coliform_mpn_100ml_mean"}

SemanticCell(h) ==
    CASE h = "station_code" -> <<"1">>
      [] h = "state"        -> <<"A","S","S","A","M">>
      [] h = "year"         -> <<"2","0","1","9">>
      [] OTHER              -> <<"7",".","0">>

EnrichStates == {<<" ","G","o","a"," ">>, <<"A","S","S","A","M">>, <<"X","X">>, << >>}

EnrichHeaders == {"station_code", "state", "year", "ph"}

InitEnrich ==
    \/ \E hs \in SUBSET SemanticHeaders :
          InitWith(Table(hs, <<[h \in hs |-> SemanticCell(h)]>>))
    \/ \E sts \in SeqsOf(EnrichStates, 1, MaxEnrichRows) :
          InitWith(Table(EnrichHeaders,
              [i \in 1..Len(sts) |->
                  [h \in EnrichHeaders |->
                      IF h = "state" THEN sts[i] ELSE SemanticCell(h)]]))

NextEnrich ==
    \/ Load \/ ConvertYear \/ Coerce \/ Dedup \/ Impute \/ Classify \/ Save
    \/ AddCoords \/ Anomalies

SpecEnrich == InitEnrich /\ [][NextEnrich]_vars

(***************************************************************************)
(* SpecAnomaly: detect_anomalies applied once, with a threshold of its     *)
(* caller's choice, to a table of one coerced measurement column.          *)
(***************************************************************************)
MaxAnomalyRows == 4

AnomalyValues == {7 * Unit, 8 * Unit, 9 * Unit, NaN}

Thresholds == {0, 1, DEFAULT_THRESHOLD}

InitAnomaly ==
    /\ \E vs \in SeqsOf(AnomalyValues, 0, MaxAnomalyRows) :
          InitWith(Table({"ph"}, [i \in 1..Len(vs) |-> [c \in {"ph"} |-> vs[i]]]))

\* The call detect_anomalies(df, "ph", th) on the table as read.
DetectCallWith(th) ==
    /\ pc = "start" /\ cache = << >>
    /\ df' = detect_anomalies(raw, "ph", th)
    /\ pc' = "called"
    /\ UNCHANGED <<raw, cache, csv, dff, widgets, executed>>

DetectCall == \E th \in Thresholds : DetectCallWith(th)

SpecAnomaly == InitAnomaly /\ [][DetectCall]_vars

(***************************************************************************)
(* SpecSmall: detect_anomalies on columns of up to ten values, each 7.0 or *)
(* 9.0, alone or after one missing value.                                  *)
(***************************************************************************)
MaxSmallRows == 10

SmallValues == {7 * Unit, 9 * Unit}

InitSmall ==
    \E vs \in SeqsOf(SmallValues, 0, MaxSmallRows) :
    \E lead \in {<< >>, <<NaN>>} :
        InitWith(Table({"ph"},
            [i \in 1..Len(lead \o vs) |-> [c \in {"ph"} |-> (lead \o vs)[i]]]))

SpecSmall == InitSmall /\ [][DetectCall]_vars

(***************************************************************************)
(* SpecRepeat: detect_anomalies called on a table, then called once more   *)
(* on its own result or on the same records in another order.              *)
(***************************************************************************)
MaxRepeatRows == 3

InitRepeat ==
    \E vs \in SeqsOf(AnomalyValues, 0, MaxRepeatRows) :
        InitWith(Table({"ph"}, [i \in 1..Len(vs) |-> [c \in {"ph"} |-> vs[i]]]))

Perms(n) == {p \in [1..n -> 1..n] : \A i, j \in 1..n : p[i] = p[j] => i = j}

\* The records of t in the order p: record i of the result is record p[i].
reindex(t, p) == Table(t.columns, [i \in Index(t) |-> t.rows[p[i]]])

\* df = detect_anomalies(df, "ph", th) on the table an earlier call returned.
DetectAgainWith(th) ==
    /\ pc = "called"
    /\ df' = detect_anomalies(df, "ph", th)
    /\ pc' = "called again"
    /\ UNCHANGED <<raw, cache, csv, dff, widgets, executed>>

DetectAgain == \E th \in Thresholds : DetectAgainWith(th)

\* detect_anomalies(df, "ph", th) on the records as read, in the order p.
DetectReorderedWith(th, p) ==
    /\ pc = "called"
    /\ df' = detect_anomalies(reindex(raw, p), "ph", th)
    /\ pc' = "called reordered"
    /\ UNCHANGED <<raw, cache, csv, dff, widgets, executed>>

DetectReordered ==
    \E th \in Thresholds : \E p \in Perms(Len(raw.rows)) : DetectReorderedWith(th, p)

NextRepeat == DetectCall \/ DetectAgain \/ DetectReordered

SpecRepeat == InitRepeat /\ [][NextRepeat]_vars

(***************************************************************************)
(* SpecColumns: the detection loop over a table of two measurement         *)
(* columns, one call per column, in either order, at a threshold of the    *)
(* caller's choice.                                                        *)
(***************************************************************************)
MaxColumnsRows == 2

ColumnValues == {7 * Unit, 9 * Unit, NaN}

LoopCols == {"ph", "conductivity"}

InitColumns ==
    \E rows \in SeqsOf([LoopCols -> ColumnValues], 0, MaxColumnsRows) :
        InitWith(Table(LoopCols, rows))

\* The table the next call of the loop receives.
Current == IF pc = "start" THEN raw ELSE df

\* One turn of the loop: df = detect_anomalies(df, c, th) for a column that
\* is present and not yet done.
DetectOnWith(c, th) ==
    /\ pc \in {"start", "detecting"}
    /\ c \in Current.columns
    /\ anomaly_col(c) \notin Current.columns
    /\ df' = detect_anomalies(Current, c, th)
    /\ pc' = "detecting"
    /\ UNCHANGED <<raw, cache, csv, dff, widgets, executed>>

DetectOn == \E c \in LoopCols : \E th \in Thresholds : DetectOnWith(c, th)

SpecColumns == InitColumns /\ [][DetectOn]_vars

(***************************************************************************)
(* SpecHeaders: stage 2 applied to one header text, and again to its own   *)
(* output.  The texts are every short text over a small alphabet and some  *)
(* headers of the water-quality file.                                      *)
(***************************************************************************)
MaxHeaderLen == 3

HeaderAlphabet == {" ", "P", "h", "_", "-", "1"}

FileHeaders ==
    {<<"D",".","O","."," ","(","m","g","/","l",")">>,
     <<"L","O","C","A","T","I","O","N","S">>,
     <<"S","T","A","T","I","O","N"," ","C","O","D","E">>,
     <<"B",".","O",".","D","."," ","(","m","g","/","l",")">>,
     <<" ","T","e","m","p"," ">>,
     <<"d","o","_","m","g","_","l">>}

InitHeaders ==
    \E h \in SeqsOf(HeaderAlphabet, 0, MaxHeaderLen) \cup FileHeaders :
        InitWith(Table({h}, << >>))

StandardiseCall ==
    /\ pc = "start" /\ cache = << >>
    /\ df' = Table(standardise(raw.columns), << >>)
    /\ pc' = "named"
    /\ UNCHANGED <<raw, cache, csv, dff, widgets, executed>>

StandardiseAgain ==
    /\ pc = "named"
    /\ df' = Table(standardise(df.columns), << >>)
    /\ pc' = "named again"
    /\ UNCHANGED <<raw, cache, csv, dff, widgets, executed>>

NextHeaders == StandardiseCall \/ StandardiseAgain

SpecHeaders == InitHeaders /\ [][NextHeaders]_vars

(***************************************************************************)
(* SpecCoerce: load_and_preprocess over files whose pH cells are numbers,  *)
(* padded numbers, spellings of NAN and texts that are no number.          *)
(***************************************************************************)
MaxCoerceRows == 2

CoerceTexts ==
    {<<"7",".","0">>, <<" ","7",".","5"," ">>, <<"1","2">>,
     <<"n","a","n">>, <<"N","a","N"," ">>, <<" ","n","A","n">>, <<"N","A","N">>,
     <<"a","b","c">>, <<"7",".",".","0">>, <<"7",",","5">>, << >>}

InitCoerce ==
    \E phs \in SeqsOf(CoerceTexts, 1, MaxCoerceRows) :
        InitWith(Table({"state", "ph"},
            [i \in 1..Len(phs) |->
                [h \in {"state", "ph"} |->
                    IF h = "ph" THEN phs[i] ELSE <<"G","O","A">>]]))

SpecCoerce == InitCoerce /\ [][NextLoad]_vars

(***************************************************************************)
(* The claims.  Thresholds are written as in the specification: a value v  *)
(* in twentieths is below 6.5 when 10 * v < 65 * Unit.                     *)
(***************************************************************************)
Rows(t) == {t.rows[i] : i \in 1..Len(t.rows)}

\* load_and_preprocess has derived the three classification columns.
Classified == pc \in {"save", "coords"}

CheckedCols == {"ph", "do_mg_l", "bod_mg_l", "fecal_coliform"}

\* The regulatory check of column c fails on the (non-missing) value v.
Violates(c, v) ==
    CASE c = "ph"             -> 10 * v < 65 * Unit \/ 10 * v > 85 * Unit
      [] c = "do_mg_l"        -> v < 5 * Unit
      [] c = "bod_mg_l"       -> v > 3 * Unit
      [] c = "fecal_coliform" -> v > 500 * Unit

\* C1: a record with ph, do_mg_l, bod_mg_l and fecal_coliform all present is
\* Non-Compliant iff ph < 6.5 or ph > 8.5 or do_mg_l < 5 or bod_mg_l > 3 or
\* fecal_coliform > 500, and Compliant otherwise (boundary values comply).
C1_ComplianceRule ==
    Classified =>
        \A r \in Rows(df) :
            (CheckedCols \subseteq df.columns /\ \A c \in CheckedCols : r[c] # NaN) =>
                /\ r["compliance_status"] \in {"Compliant", "Non-Compliant"}
                /\ r["compliance_status"] = "Non-Compliant"
                       <=> \E c \in CheckedCols : Violates(c, r[c])

\* pH 6.5, BOD 3 and FC 500 sit on their bounds and comply; DO 4.9 alone
\* makes the record Non-Compliant.
C1_Witness ==
    /\ Classified
    /\ \E r \in Rows(df) :
          /\ CheckedCols \subseteq df.columns
          /\ r["ph"] = 130 /\ r["do_mg_l"] = 98
          /\ r["bod_mg_l"] = 60 /\ r["fecal_coliform"] = 10000
          /\ r["compliance_status"] = "Non-Compliant"

\* C2: whichever of the four checked columns are absent from the schema, the
\* classification completes, the absent columns contribute no violation (the
\* status is decided by the present columns alone), and a record with all
\* four absent is Compliant.
C2_AbsentColumnsSkipped ==
    Classified =>
        /\ "compliance_status" \in df.columns
        /\ \A r \in Rows(df) :
              LET present == CheckedCols \cap df.columns
              IN  /\ r["compliance_status"] \in {"Compliant", "Non-Compliant"}
                  /\ present = {} => r["compliance_status"] = "Compliant"
                  /\ (\A c \in present : r[c] # NaN) =>
                        (r["compliance_status"] = "Non-Compliant"
                            <=> \E c \in present : Violates(c, r[c]))

\* ph and fecal_coliform are not in the file; DO 5 and BOD 3.0 comply.
C2_Witness ==
    /\ Classified
    /\ CheckedCols \cap df.columns = {"do_mg_l", "bod_mg_l"}
    /\ \E r \in Rows(df) :
          /\ r["do_mg_l"] = 100 /\ r["bod_mg_l"] = 60
          /\ r["compliance_status"] = "Compliant"

PhLabels == {"Acidic", "Neutral", "Alkaline", "Unknown"}

PhLabel(v) ==
    IF v = NaN THEN "Unknown"
    ELSE IF 10 * v < 65 * Unit THEN "Acidic"
    ELSE IF 10 * v <= 85 * Unit THEN "Neutral"
    ELSE "Alkaline"

\* C3: classify_ph gives every pH value exactly one label: Acidic below 6.5,
\* Neutral from 6.5 to 8.5 inclusive, Alkaline above 8.5, Unknown when the
\* value is missing; the label is never empty.
C3_PhPartition ==
    (Classified /\ "ph" \in df.columns) =>
        \A r \in Rows(df) :
            /\ r["ph_status"] \in PhLabels
            /\ r["ph_status"] = PhLabel(r["ph"])

\* The cell "8.5" is read as 8.5 and labelled Neutral.
C3_Witness ==
    /\ Classified /\ "ph" \in df.columns
    /\ raw.rows[1]["ph"] = <<"8", ".", "5">>
    /\ df.rows[1]["ph"] = 170
    /\ df.rows[1]["ph_status"] = "Neutral"

EcLabel(v) ==
    IF v = NaN THEN "Unknown"
    ELSE IF v < 250 * Unit THEN "Low"
    ELSE IF v <= 750 * Unit THEN "Medium"
    ELSE "High"

\* C4: classify_ec labels a conductivity Low below 250, Medium from 250 to
\* 750 inclusive, High above 750, Unknown when missing; when the column is
\* absent from the schema every record has ec_level Unknown.
C4_EcPartition ==
    Classified =>
        \A r \in Rows(df) :
            r["ec_level"] = IF "conductivity" \in df.columns
                            THEN EcLabel(r["conductivity"]) ELSE "Unknown"

\* The cell "750" is read as 750 and labelled Medium.
C4_Witness ==
    /\ Classified /\ "conductivity" \in df.columns
    /\ raw.rows[1]["conductivity_hos_cm"] = <<"7", "5", "0">>
    /\ df.rows[1]["conductivity"] = 15000
    /\ df.rows[1]["ec_level"] = "Medium"


\* The file header a clean column name came from.
HeaderOf(c) == CHOOSE h \in raw.columns : renamed(h) = c

\* Some cell of the file's column for c holds a number after coercion.
HasValue(c) ==
    /\ \E h \in raw.columns : renamed(h) = c
    /\ \E i \in 1..Len(raw.rows) : coerce_cell(read_cell(raw.rows[i][HeaderOf(c)])) # NaN

\* The labels a record must carry under the two rules.
PhLabelOf(r) == IF "ph" \in DOMAIN r THEN PhLabel(r["ph"]) ELSE "Unknown"
EcLabelOf(r) == IF "conductivity" \in DOMAIN r THEN EcLabel(r["conductivity"]) ELSE "Unknown"

\* C5: in the enriched table and in the filtered copy, at every point of a
\* session, each record's ph_status is the pH rule of its own ph value and
\* its ec_level the conductivity rule of its own conductivity value; the
\* label Unknown appears only on a missing value, and never in a column
\* whose file column holds at least one number.
C5_LabelsFollowValues ==
    \A t \in {df, dff} :
        "ph_status" \in t.columns =>
            \A r \in Rows(t) :
                /\ r["ph_status"] = PhLabelOf(r)
                /\ r["ec_level"] = EcLabelOf(r)
                /\ ("ph" \in DOMAIN r /\ r["ph_status"] = "Unknown" => r["ph"] = NaN)
                /\ ("conductivity" \in DOMAIN r /\ r["ec_level"] = "Unknown"
                        => r["conductivity"] = NaN)
                /\ (HasValue("ph") => r["ph_status"] # "Unknown")
                /\ (HasValue("conductivity") => r["ec_level"] # "Unknown")

\* A filtered copy, after a year selection, that holds the one record whose
\* pH cell was missing in the file: it carries the label of the imputed 6.4.
C5_Witness ==
    /\ pc = "idle" /\ shown.status = "rendered"
    /\ Len(raw.rows) = 2 /\ Len(df.rows) = 2
    /\ raw.rows[1]["ph"] = <<"6", ".", "4">>
    /\ raw.rows[2]["ph"] = <<"N", "A", "N">>
    /\ dff.rows = <<df.rows[2]>>
    /\ dff.rows[1]["ph"] = 128
    /\ dff.rows[1]["ph_status"] = "Acidic"
    /\ dff.rows[1]["ec_level"] = "Medium"

\* load_and_preprocess is past the imputation stage.
Imputed == pc \in {"classify", "save", "coords"}

\* C6: once load_and_preprocess has imputed, every numeric measurement
\* column that is present and whose file column holds at least one number
\* has no missing value in any record.
C6_NoMissingAfterImpute ==
    Imputed =>
        \A c \in NumCols \cap df.columns :
            HasValue(c) => \A r \in Rows(df) : r[c] # NaN

\* load_and_preprocess has returned a table of three records whose column
\* had one missing cell and two numbers in the file.
C6_Witness ==
    /\ pc = "coords"
    /\ Len(df.rows) = 3
    /\ \E c \in NumCols \cap df.columns :
          /\ Cardinality({i \in 1..3 :
                coerce_cell(read_cell(raw.rows[i][HeaderOf(c)])) = NaN}) = 1
          /\ \A r \in Rows(df) : r[c] # NaN

\* The k-th smallest of the non-missing values of s, by counting.
KthSmallest(s, k) ==
    LET nm == {i \in 1..Len(s) : s[i] # NaN}
    IN  CHOOSE v \in {s[i] : i \in nm} :
            /\ Cardinality({i \in nm : s[i] < v}) < k
            /\ k <= Cardinality({i \in nm : s[i] <= v})

\* m is the median of the non-missing values of s (missing when none).
IsMedianOf(m, s) ==
    LET n == Cardinality({i \in 1..Len(s) : s[i] # NaN})
    IN  IF n = 0 THEN m = NaN
        ELSE IF n % 2 = 1 THEN m = KthSmallest(s, (n + 1) \div 2)
        ELSE 2 * m = KthSmallest(s, n \div 2) + KthSmallest(s, n \div 2 + 1)

\* C7: the imputation stage replaces each missing value of a numeric column
\* by the median of that column's non-missing values in the deduplicated
\* table, column by column, and changes nothing else: non-missing values,
\* other columns, the records and their order stay as they are.
C7_ImputeMedian ==
    [][pc = "impute" =>
        /\ df'.columns = df.columns
        /\ Len(df'.rows) = Len(df.rows)
        /\ \A i \in 1..Len(df.rows) : \A c \in df.columns :
              IF c \in NumCols /\ df.rows[i][c] = NaN
              THEN IsMedianOf(df'.rows[i][c], [j \in 1..Len(df.rows) |-> df.rows[j][c]])
              ELSE df'.rows[i][c] = df.rows[i][c]]_vars

\* Two columns imputed with different medians: pH 7.0, 7.0, missing gives
\* 7.0 and conductivity missing, 9.0, 7.0 gives 8.0.
C7_Witness ==
    /\ pc = "classify"
    /\ df.columns = {"ph", "conductivity"}
    /\ Len(raw.rows) = 3 /\ Len(df.rows) = 3
    /\ raw.rows[3]["ph"] = <<"N", "A", "N">>
    /\ raw.rows[1]["conductivity_hos_cm"] = <<"N", "A", "N">>
    /\ df.rows[3]["ph"] = 7 * Unit
    /\ df.rows[1]["conductivity"] = 8 * Unit
    /\ df.rows[2]["conductivity"] = 9 * Unit

\* The position of the first record equal to r.
FirstIndex(rows, r) ==
    CHOOSE i \in 1..Len(rows) : rows[i] = r /\ \A j \in 1..(i - 1) : rows[j] # r

\* C8: the deduplication stage keeps exactly one copy of each distinct
\* record, the first, in the order of first occurrence: a record goes iff an
\* earlier record equals it in every column, and records that differ in a
\* column are both kept.
C8_DropDuplicates ==
    [][pc = "dedup" =>
        /\ df'.columns = df.columns
        /\ Rows(df') = Rows(df)
        /\ Len(df'.rows) =
              Cardinality({i \in 1..Len(df.rows) :
                  ~\E j \in 1..(i - 1) : df.rows[j] = df.rows[i]})
        /\ \A a \in 1..Len(df'.rows) : \A b \in 1..Len(df'.rows) :
              a < b => FirstIndex(df.rows, df'.rows[a]) < FirstIndex(df.rows, df'.rows[b])
      ]_vars

\* A file whose third record repeats the first and differs from the second:
\* two records are left, the first and the second.
C8_Witness ==
    /\ pc = "impute"
    /\ Len(raw.rows) = 3
    /\ raw.rows[1] = raw.rows[3]
    /\ raw.rows[1] # raw.rows[2]
    /\ Len(df.rows) = 2
    /\ df.rows[1] # df.rows[2]
    /\ \E c \in df.columns :
          /\ df.rows[1][c] = coerce_cell(read_cell(raw.rows[1][HeaderOf(c)]))
          /\ df.rows[2][c] = coerce_cell(read_cell(raw.rows[2][HeaderOf(c)]))
          /\ df.rows[1][c] # df.rows[2][c]

\* A record passes the current selection.
Passes(r) ==
    /\ (sel_states = {} \/ r["state"] \in sel_states)
    /\ r["year"] # NaN
    /\ year_range[1] <= r["year"]
    /\ r["year"] <= year_range[2]

\* C9: once a run has filtered, the filtered copy holds exactly the enriched
\* records whose year lies in the inclusive range and whose region is
\* selected, in their order; with nothing selected every region passes and
\* the year bound still applies.
C9_FilterExact ==
    pc \in {"section", "idle"} =>
        /\ dff.columns = df.columns
        /\ dff.rows = SelectSeq(df.rows, Passes)

\* Nothing selected and the range narrowed to 2019: of two records of
\* different regions and years, the one of 2019 is left.
C9_Witness ==
    /\ pc = "idle"
    /\ sel_states = {}
    /\ year_range = <<2019, 2019>>
    /\ Len(df.rows) = 2
    /\ df.rows[1]["state"] # df.rows[2]["state"]
    /\ df.rows[1]["year"] = 2020
    /\ dff.rows = <<df.rows[2]>>

\* The anomaly loop of the script body has run in some run of the session.
Enriched ==
    \/ pc \in {"sidebar", "filter", "section", "idle"}
    \/ pc = "start" /\ cache # << >>

\* C10: once the enriched table is built, no step changes it: sidebar
\* defaults, filtering, rendering, every widget interaction and every later
\* run leave its records, columns and values as they were.
C10_EnrichedUnchanged ==
    [][Enriched => df' = df /\ cache' = cache]_vars

\* A dashboard rendered after the region and the anomaly parameter were
\* changed, its filtered copy smaller than the enriched table.
C10_Witness ==
    /\ pc = "idle"
    /\ nav = SECTIONS[3]
    /\ shown.status = "rendered"
    /\ anomaly_param = "conductivity"
    /\ map_param = "bod_mg_l"
    /\ sel_states # {} /\ sel_states # all_states(df)
    /\ Len(dff.rows) = 1 /\ Len(df.rows) = 2


\* The coordinates the Region Coordinate Table holds for a region name as it
\* stands in the file: the entry of its trimmed, upper-cased form.
CoordsOf(text) ==
    CASE text = <<" ","G","o","a"," ">> -> STATE_COORDS[<<"G","O","A">>]
      [] text = <<"A","S","S","A","M">> -> STATE_COORDS[<<"A","S","S","A","M">>]
      [] OTHER                          -> <<NaN, NaN>>

\* C11: add_map_coords never raises on a table with a region column, and
\* returns the records it was given, in their order, each with the
\* coordinates of its region name, or null coordinates when the name is
\* unknown or missing.
C11_CoordsKeepEveryRecord ==
    /\ (pc = "raised" => "state" \notin df.columns)
    /\ (pc = "anomalies" =>
          /\ Len(df.rows) = Len(cached_value(cache).rows)
          /\ \A i \in 1..Len(df.rows) :
                /\ \A c \in cached_value(cache).columns :
                      df.rows[i][c] = cached_value(cache).rows[i][c]
                /\ <<df.rows[i]["lat"], df.rows[i]["lon"]>>
                      = CoordsOf(raw.rows[i]["state"]))


\* Sums over the non-missing values of a column, by position.
RECURSIVE SumTo(_, _)
SumTo(s, k) ==
    IF k = 0 THEN 0 ELSE SumTo(s, k - 1) + (IF s[k] = NaN THEN 0 ELSE s[k])

RECURSIVE SumSqTo(_, _)
SumSqTo(s, k) ==
    IF k = 0 THEN 0 ELSE SumSqTo(s, k - 1) + (IF s[k] = NaN THEN 0 ELSE s[k] * s[k])

CountOf(s) == Cardinality({i \in 1..Len(s) : s[i] # NaN})

\* n^2 (n - 1) times the sample variance of the non-missing values:
\* n (n sum(v^2) - sum(v)^2).
ScaledVariance(s) ==
    CountOf(s) * (CountOf(s) * SumSqTo(s, Len(s)) - SumTo(s, Len(s)) * SumTo(s, Len(s)))

\* |x - mean| / stddev > th, for a column of positive standard deviation:
\* squared and multiplied by n^2 (n - 1) stddev^2.
ScoreExceeds(x, s, th) ==
    LET n == CountOf(s)
        d == n * x - SumTo(s, Len(s))
    IN  d * d * (n - 1) > th * th * ScaledVariance(s)

\* The column has at least two non-missing values, not all equal.
HasSpread(s) == CountOf(s) >= 2 /\ ScaledVariance(s) > 0

C13_DegenerateHandled ==
    pc = "called" =>
        LET s == [i \in 1..Len(df.rows) |-> df.rows[i]["ph"]]
        IN  ~HasSpread(s) =>
                \A i \in 1..Len(s) :
                    /\ df.rows[i]["ph_anomaly"] = FALSE
                    /\ (s[i] # NaN => zscore_kind(s[i], dropna(s)) \notin {"nan", "inf"})


\* C14: load_and_preprocess applied to the processed file it wrote writes
\* the same file again: the same records, in the same order, with the same
\* ph_status, ec_level and compliance_status.
C14_RoundTrip ==
    Len(csv) = 2 => csv[2] = csv[1]


\* A lower-case letter or a digit.
Alnum(c) == c \in SeqSet(Lowers) \cup SeqSet(Digits)

\* The characters of the lower-cased text L from position i to hi: each
\* letter or digit, and one underscore where a run of other characters
\* starts.
RECURSIVE Emit(_, _, _)
Emit(L, i, hi) ==
    IF i > hi THEN << >>
    ELSE (IF Alnum(L[i]) THEN <<L[i]>>
          ELSE IF Alnum(L[i - 1]) THEN <<"_">>
          ELSE << >>) \o Emit(L, i + 1, hi)

\* The normal form of a header: from its first to its last letter or digit.
ExpectedName(h) ==
    LET L == str_lower(h)
        P == {i \in 1..Len(L) : Alnum(L[i])}
    IN  IF P = {} THEN << >> ELSE Emit(L, SetMin(P), SetMax(P))

\* C15: stage 2 turns a header into its trimmed, lower-cased form with each
\* run of characters outside a-z0-9 as one underscore and no underscore at
\* either end; a form that is a key of the rename table is replaced by the
\* table's value and any other form passes through; applied to its own
\* output, stage 2 changes no header.
C15_HeaderNormalizer ==
    [][/\ (pc = "start" =>
              \A h \in raw.columns :
                  LET n == ExpectedName(h)
                  IN  /\ Cardinality(df'.columns) = 1
                      /\ \A o \in df'.columns :
                            IF to_str(n) \in DOMAIN rename_map
                            THEN to_str(o) = rename_map[to_str(n)]
                            ELSE o = n)
       /\ (pc = "named" => df'.columns = df.columns)
      ]_vars

\* The header "D.O. (mg/l)" has become do_mg_l and stayed so.
C15_Witness ==
    /\ pc = "named again"
    /\ raw.columns = {<<"D",".","O","."," ","(","m","g","/","l",")">>}
    /\ df.columns = {<<"d","o","_","m","g","_","l">>}


\* The columns that stages 6 and 7 add to a table with the given columns.
EnrichmentCols(cols) ==
    {"lat", "lon"} \cup {anomaly_col(c) : c \in SeqSet(anomaly_params) \cap cols}

\* C16: the processed file exists only once coordinate attachment and
\* anomaly detection have completed, and it holds every column of the
\* enriched table: the three classification columns, the anomaly flags and
\* the coordinates.
C16_ProcessedFileComplete ==
    csv # << >> =>
        /\ EnrichmentCols(df.columns) \subseteq df.columns
        /\ {"ph_status", "ec_level", "compliance_status"} \subseteq csv[1].columns
        /\ EnrichmentCols(csv[1].columns) \subseteq csv[1].columns
        /\ (Enriched => df.columns \subseteq csv[1].columns)


\* C17: over a whole session, each part of the enrichment pipeline
\* (load_and_preprocess, coordinate attachment, the anomaly loop) executes at
\* most once and the processed file is written at most once.
C17_PipelineRunsOnce ==
    /\ \A part \in DOMAIN executed : executed[part] <= 1
    /\ Len(csv) <= 1


\* C18: whatever subset of the semantic columns the file lacks, no stage
\* from normalisation to anomaly detection raises for a missing column: an
\* absent pH or conductivity column gives the label Unknown and every other
\* absent column is skipped.
C18_AbsentColumnsTolerated ==
    /\ ~(pc = "raised" /\ SemanticHeaders \ raw.columns # {}
            /\ \A i \in 1..Len(raw.rows) : \A h \in raw.columns :
                  raw.rows[i][h] = SemanticCell(h))
    /\ (pc \in {"save", "coords", "anomalies", "sidebar"} =>
          \A r \in Rows(df) :
              /\ ("ph" \notin raw.columns => r["ph_status"] = "Unknown")
              /\ ("conductivity_hos_cm" \notin raw.columns => r["ec_level"] = "Unknown"))


\* The number a cell text stands for, in twentieths; every other text of
\* CoerceTexts is a spelling of NAN or no number.
NumberOf(text) ==
    CASE text = <<"7",".","0">>         -> 7 * Unit
      [] text = <<" ","7",".","5"," ">> -> 7 * Unit + Unit \div 2
      [] text = <<"1","2">>             -> 12 * Unit
      [] OTHER                          -> NaN

\* C19: the coercion stage turns each cell of a measurement column into the
\* number its trimmed text stands for, and into a missing value when that
\* text is NAN in any letter case or no number; it keeps every record, in
\* order, and leaves the other columns alone.
C19_CoercionRule ==
    [][pc = "coerce" =>
        /\ df'.columns = df.columns
        /\ Len(df'.rows) = Len(raw.rows)
        /\ \A i \in 1..Len(raw.rows) :
              /\ df'.rows[i]["ph"] = NumberOf(raw.rows[i]["ph"])
              /\ df'.rows[i]["state"] = df.rows[i]["state"]
      ]_vars

\* A file of two records, " nAn" and " 7.5 ": after coercion the first pH
\* is missing and the second is 7.5.
C19_Witness ==
    /\ pc = "dedup"
    /\ Len(df.rows) = 2
    /\ raw.rows[1]["ph"] = <<" ","n","A","n">>
    /\ raw.rows[2]["ph"] = <<" ","7",".","5"," ">>
    /\ df.rows[1]["ph"] = NaN
    /\ df.rows[2]["ph"] = 7 * Unit + Unit \div 2

\* C20: when the filtered subset has no records and the dashboard section is
\* selected, the page shows the warning and stops: no map or anomaly widget is
\* created, nothing is recomputed, no count or percentage is computed over the
\* subset, and no exception is raised.
C20_EmptyDashboardStops ==
    (pc = "idle" /\ nav = SECTIONS[3] /\ dff.rows = << >>)
        => /\ shown = Shown("stopped", FALSE, 0)
           /\ map_param = NoChoice
           /\ anomaly_param = NoChoice

\* A loaded table of two records whose filters select none of them, with the
\* dashboard section on screen.
C20_Witness ==
    /\ pc = "idle"
    /\ nav = SECTIONS[3]
    /\ Len(df.rows) = 2
    /\ dff.rows = << >>
    /\ shown.status = "stopped"

\* C21: detect_anomalies is idempotent and order-independent.  Called again,
\* with the same threshold, on the table it returned, it returns that table
\* unchanged; called on the same records in another order, it gives every
\* record the flag the record has without the reordering.
C21_AnomalyIdempotentAnyOrder ==
    [][/\ \A th \in Thresholds :
             (DetectAgainWith(th) /\ df = detect_anomalies(raw, "ph", th))
                 => df' = df
       /\ \A th \in Thresholds : \A p \in Perms(Len(raw.rows)) :
             (DetectReorderedWith(th, p) /\ df = detect_anomalies(raw, "ph", th))
                 => \A i \in 1..Len(raw.rows) : df'.rows[i] = df.rows[p[i]]]_vars

\* Three records, one of them missing, of which the first call at threshold
\* 0 flagged two, after a second call.
C21_Witness ==
    /\ pc = "called again"
    /\ Len(df.rows) = 3
    /\ df.rows[1] = [ph |-> 9 * Unit, ph_anomaly |-> TRUE]
    /\ df.rows[2] = [ph |-> NaN, ph_anomaly |-> FALSE]
    /\ df.rows[3] = [ph |-> 7 * Unit, ph_anomaly |-> TRUE]

\* Records 9.0, 7.0, 7.0 called in reverse order at threshold 1.
C21_WitnessReordered ==
    /\ pc = "called reordered"
    /\ raw.rows = <<[ph |-> 9 * Unit], [ph |-> 7 * Unit], [ph |-> 7 * Unit]>>
    /\ df.rows[3] = [ph |-> 9 * Unit, ph_anomaly |-> TRUE]
    /\ df.rows[1] = [ph |-> 7 * Unit, ph_anomaly |-> FALSE]

\* The tables that agree with t on column c: the same records with any
\* measurements and any flags in the columns other than c.
AgreeOn(t, c) ==
    LET n      == Len(t.rows)
        values == (t.columns \cap NumCols) \ {c}
        flags  == t.columns \ NumCols
    IN  {Table(t.columns,
               [i \in 1..n |->
                   [k \in t.columns |->
                       IF k = c THEN t.rows[i][c]
                       ELSE IF k \in values THEN f[k][i] ELSE g[k][i]]]) :
            f \in [values -> [1..n -> ColumnValues]],
            g \in [flags -> [1..n -> BOOLEAN]]}

\* C22: a record's flag for column X depends on column X alone.  Whatever
\* the other columns hold, and whichever column the loop has handled before,
\* detect_anomalies on X gives every record the flag it gives it in any table
\* that agrees on X, and leaves every column other than X_anomaly as it was.
C22_FlagDependsOnOwnColumn ==
    [][\A c \in LoopCols : \A th \in Thresholds :
          DetectOnWith(c, th) =>
              /\ df'.columns = Current.columns \cup {anomaly_col(c)}
              /\ \A k \in Current.columns : Column(df', k) = Column(Current, k)
              /\ \A t \in AgreeOn(Current, c) :
                    Column(detect_anomalies(t, c, th), anomaly_col(c))
                        = Column(df', anomaly_col(c))]_vars

\* The second turn of the loop has flagged both ph values of a table whose
\* conductivity column has a missing value and a flag column of its own.
C22_Witness ==
    /\ pc = "detecting"
    /\ df.columns = {"ph", "conductivity", "ph_anomaly", "conductivity_anomaly"}
    /\ Len(df.rows) = 2
    /\ df.rows[1]["conductivity"] = NaN
    /\ df.rows[1]["ph_anomaly"]
    /\ df.rows[2]["ph_anomaly"]
    /\ ~df.rows[2]["conductivity_anomaly"]

\* The flag columns of the enriched table are boolean in every record.
FlagsAreBoolean(cols) ==
    \A c \in cols : anomaly_col(c) \in df.columns =>
        \A r \in Rows(df) : r[anomaly_col(c)] \in BOOLEAN

\* C23 as stated: once the pipeline has completed, the enriched table has a
\* boolean column {param}_anomaly for each of the eight measurement columns
\* that is present in the schema.
C23_FlagForEveryMeasurement ==
    pc = "sidebar" =>
        /\ \A c \in NumCols \cap df.columns : anomaly_col(c) \in df.columns
        /\ FlagsAreBoolean(NumCols)

\* The columns the anomaly loop handles.
FlaggedParams == {"ph", "conductivity", "bod_mg_l", "do_mg_l", "fecal_coliform"}

\* C23 amended: once the pipeline has completed, the enriched table has a
\* boolean column {param}_anomaly for each of ph, conductivity, bod_mg_l,
\* do_mg_l and fecal_coliform that is present in the schema, and none for
\* temp, nitrate_mg_l, total_coliform or an absent column.
C23_FlagForLoopColumns ==
    pc = "sidebar" =>
        /\ \A c \in NumCols :
              anomaly_col(c) \in df.columns <=> c \in FlaggedParams \cap df.columns
        /\ FlagsAreBoolean(NumCols)

\* A completed pipeline on a file with all eight measurement columns.
C23_Witness ==
    /\ pc = "sidebar"
    /\ NumCols \subseteq df.columns
    /\ Len(df.rows) = 1
    /\ df.rows[1]["fecal_coliform_anomaly"] = FALSE
    /\ "temp_anomaly" \notin df.columns

\* The distinct values the pH texts of the file stand for.
CoercedValues == {NumberOf(raw.rows[i]["ph"]) : i \in 1..Len(raw.rows)}

\* C24: duplicates are dropped after coercion and before the median fill.
\* Records whose cells differ as text but stand for the same value (two
\* spellings of NAN, a number with and without spaces) become one record;
\* records that differ after coercion are all kept, through the median fill
\* and to the end of the pipeline, also when the fill has made them equal.
C24_DedupBetweenCoerceAndImpute ==
    pc \in {"impute", "classify", "save", "coords"} =>
        Len(df.rows) = Cardinality(CoercedValues)

\* A number and a missing value: the fill has made the two records equal and
\* both are in the table.
C24_Witness ==
    /\ pc = "coords"
    /\ Len(raw.rows) = 2
    /\ raw.rows[1]["ph"] = <<"7",".","0">>
    /\ raw.rows[2]["ph"] = <<" ","n","A","n">>
    /\ Len(df.rows) = 2
    /\ df.rows[1] = df.rows[2]

\* Two spellings of NAN: one record is left.
C24_WitnessCollapsed ==
    /\ pc = "coords"
    /\ Len(raw.rows) = 2
    /\ raw.rows[1]["ph"] = <<"n","a","n">>
    /\ raw.rows[2]["ph"] = <<"N","A","N">>
    /\ Len(df.rows) = 1

\* The check of column c fires on the value v: a missing pH fires, a missing
\* DO, BOD or fecal coliform does not.
Fires(c, v) == IF v = NaN THEN c = "ph" ELSE Violates(c, v)

\* C25: when a checked column is in the schema and a record's value in it is
\* missing, a missing ph makes the record Non-Compliant, and a missing
\* do_mg_l, bod_mg_l or fecal_coliform fires no violation: the record's
\* status is decided by its pH and its other non-missing values.
C25_MissingValueChecks ==
    Classified =>
        \A r \in Rows(df) :
            LET present == CheckedCols \cap df.columns
            IN  /\ ("ph" \in present /\ r["ph"] = NaN)
                    => r["compliance_status"] = "Non-Compliant"
                /\ r["compliance_status"] = "Non-Compliant"
                       <=> \E c \in present : Fires(c, r[c])

\* All four columns are in the file; DO, BOD and fecal coliform are missing
\* and pH 6.5 complies: the record is Compliant.
C25_Witness ==
    /\ Classified
    /\ CheckedCols \subseteq df.columns
    /\ \E r \in Rows(df) :
          /\ r["ph"] = 130 /\ r["do_mg_l"] = NaN
          /\ r["bod_mg_l"] = NaN /\ r["fecal_coliform"] = NaN
          /\ r["compliance_status"] = "Compliant"

\* The pH is missing and every other value complies: Non-Compliant.
C25_WitnessMissingPh ==
    /\ Classified
    /\ CheckedCols \subseteq df.columns
    /\ \E r \in Rows(df) :
          /\ r["ph"] = NaN /\ r["do_mg_l"] = 100
          /\ r["bod_mg_l"] = 60 /\ r["fecal_coliform"] = 10000
          /\ r["compliance_status"] = "Non-Compliant"

\* The flag of value x of column c computed from the whole enriched table.
\* Mean and standard deviation are taken of the values counted from the
\* smallest one, which changes neither the deviations nor the flag.
FullTableFlag(c, x) ==
    LET s    == Column(df, c)
        low  == SetMin({s[i] : i \in {j \in 1..Len(s) : s[j] # NaN}})
        from == [i \in 1..Len(s) |-> IF s[i] = NaN THEN NaN ELSE s[i] - low]
    IN  /\ x # NaN
        /\ CountOf(s) >= 2
        /\ HasSpread(from)
        /\ ScoreExceeds(x - low, from, DEFAULT_THRESHOLD)

\* C26: a record carries the same anomaly flags in every filtered subset.
\* For every region and year selection and every choice of the anomaly
\* parameter, the filtered copy already has the flag column, the anomaly
\* chart never recomputes the flags over the subset, and every record of the
\* subset has the flags computed from the whole enriched table.
C26_FlagsFromFullTable ==
    /\ ~shown.recomputed
    /\ pc = "idle" =>
          /\ \A c \in FlaggedParams \cap df.columns : anomaly_col(c) \in dff.columns
          /\ \A r \in Rows(dff) : \A c \in FlaggedParams \cap df.columns :
                r[anomaly_col(c)] = FullTableFlag(c, r[c])
          /\ shown.status = "rendered" =>
                shown.n_anomalies =
                    Cardinality({i \in 1..Len(dff.rows) :
                        FullTableFlag(anomaly_param, dff.rows[i][anomaly_param])})

\* The dashboard shows the pH anomalies of a subset of fewer than eleven
\* records, among them the record flagged in the whole table.
C26_Witness ==
    /\ pc = "idle"
    /\ shown.status = "rendered"
    /\ anomaly_param = "ph"
    /\ Len(df.rows) = FlagRows
    /\ Len(dff.rows) < 10
    /\ shown.n_anomalies = 1
    /\ \E r \in Rows(dff) : r["ph"] = 9 * Unit /\ r["ph_anomaly"]

\* C27: on a column with at most 10 non-missing values, whatever they are,
\* detect_anomalies at the default threshold 3.0 flags no record.
C27_NoFlagUpToTenValues ==
    [][(DetectCallWith(DEFAULT_THRESHOLD) /\ CountOf(Column(raw, "ph")) <= 10)
          => \A r \in Rows(df') : ~r["ph_anomaly"]]_vars

\* Ten values, nine of them equal: the largest score ten values can have,
\* 9 / sqrt(10), and the tenth value is not flagged.
C27_Witness ==
    /\ pc = "called"
    /\ Len(df.rows) = 10
    /\ df.rows[1]["ph"] = 9 * Unit
    /\ \A i \in 2..10 : df.rows[i]["ph"] = 7 * Unit
    /\ ~df.rows[1]["ph_anomaly"]

\* The year cell of the file holds no number.
NoYear(text) == text \notin {<<"2","0","1","9">>, <<"2","0","2","0">>}

\* C28: a record whose year is missing after coercion stays in the enriched
\* table and is in no filtered subset, whatever regions are selected (none
\* selected included) and whatever the year range is, the full default range
\* included.
C28_MissingYearExcluded ==
    /\ \A r \in Rows(dff) : r["year"] # NaN
    /\ pc \in {"filter", "section", "idle"} =>
          /\ dff.rows = take_rows(df.rows,
                [i \in 1..Len(df.rows) |->
                    /\ df.rows[i]["year"] # NaN
                    /\ sel_states # {} => df.rows[i]["state"] \in sel_states
                    /\ year_range[1] <= df.rows[i]["year"]
                    /\ df.rows[i]["year"] <= year_range[2]], 1)
             \/ pc = "filter"
          /\ \A i \in 1..Len(raw.rows) :
                NoYear(raw.rows[i]["year"]) =>
                    \E r \in Rows(df) :
                        r["year"] = NaN /\ r["state"] = raw.rows[i]["state"]

\* A record of GOA without a year between those of 2019 and 2020; no region
\* is selected and the year range is the default one, 2019 to 2020: the
\* subset is the two dated records.
C28_Witness ==
    /\ pc = "idle"
    /\ Len(df.rows) = 3
    /\ df.rows[1]["year"] = NaN
    /\ sel_states = {}
    /\ year_range = <<2019, 2020>>
    /\ dff.rows = <<df.rows[2], df.rows[3]>>

====
